---- MODULE Spec2Model ----
(***************************************************************************)
(* A model of libhat's scan engine, include/libhat/Scanner.hpp:            *)
(* scan_result_base (read / rel / has_result), the alignment helpers, the  *)
(* two scalar kernels find_pattern<FastFirst, X1> and <FastFirst, X16>,    *)
(* truncate, and the public entry points find_pattern (find-first) and the *)
(* three find_all_pattern forms (bounded output, counted, vector).         *)
(*                                                                         *)
(* Addresses are absolute integers; nullptr is address 0.  Memory is a     *)
(* finite map of the bytes that may be non-zero; every other byte reads 0. *)
(* The scan context is built on the LIBHAT_IF_CONSTEVAL path (line 232),   *)
(* which selects the scalar kernel of the requested alignment.             *)
(***************************************************************************)
EXTENDS Integers, Sequences, FiniteSets

VARIABLES
    mem,        \* the bytes of the address space that may be non-zero
    beginIn,    \* std::to_address(beginIt / beginIn)
    endIn,      \* std::to_address(endIt / endIn)
    signature,  \* the signature_view handed to the entry point
    alignment,  \* the scan_alignment template argument (1 or 16)
    pc,         \* "idle", "loop" (inside a find-all loop), "done"
    op,         \* the entry point that was called
    result,     \* scan_result_base::result: what find-first returned
    i,          \* find-all: the search cursor
    hit,        \* find-all: the kernel's latest result.get()
    out,        \* find-all: the addresses written through the output iterator
    outCap,     \* find-all (bounded): endOut - beginOut
    matches,    \* find-all (counted): the match counter
    retIn,      \* find-all (bounded): first element of the returned pair, as an address
    reads,      \* the addresses the last call was allowed to load from
    scans,      \* the number of kernel invocations of the last call
    relOut      \* what rel(offset) returned

vars == <<mem, beginIn, endIn, signature, alignment, pc, op, result, i, hit,
          out, outCap, matches, retIn, reads, scans, relOut>>

(***************************************************************************)
(* Bounds of the model.                                                    *)
(***************************************************************************)
MaxSigLen == 3      \* longest signature
MaxOut == 2         \* largest capacity of a bounded output range
MaxScans == 4       \* kernel invocations after which a find-all loop is cut
MaxRelOffset == 2   \* largest offset handed to rel

ByteVals == {0, 1}                  \* the bytes scanned memory holds
Windows == {16, 32}                 \* where memory may be non-zero: 16-aligned
Hot == {w + d : w \in Windows, d \in 0..2}
BeginSet == {15, 16, 32}                    \* values of beginIn
EndSet == {16, 17, 18, 19, 32, 33, 34, 48, 50}   \* values of endIn
RelByteVals == {0, 1, 128, 255}     \* the bytes of a displacement field
RelBases == {16}                    \* the addresses a non-null result holds

(***************************************************************************)
(* Program constants.                                                      *)
(***************************************************************************)
Null == 0           \* nullptr
X1 == 1             \* scan_alignment::X1
X16 == 16           \* scan_alignment::X16
RelSize == 4        \* sizeof(rel_t), rel_t = int32_t

MemAt(a) == IF a \in DOMAIN mem THEN mem[a] ELSE 0

(***************************************************************************)
(* Signature elements are std::optional<std::byte>: the empty set is       *)
(* std::nullopt (a wildcard), {b} holds the byte b.                        *)
(***************************************************************************)
Wild == {}
Elems == {Wild} \cup {{b} : b \in ByteVals}
has_value(e) == e # {}
value(e) == CHOOSE b \in e : TRUE

Sigs == {s \in UNION {[1..n -> Elems] : n \in 1..MaxSigLen} :
            \E k \in DOMAIN s : has_value(s[k])}

(***************************************************************************)
(* scan_result_base                                                        *)
(***************************************************************************)
has_result(r) == r # Null

\* read<Int>(offset) for a signed Int of n bytes: a little-endian load, the
\* top byte carrying the sign.
RECURSIVE read_le(_, _)
read_le(a, n) ==
    IF n = 1
    THEN (IF MemAt(a) >= 128 THEN MemAt(a) - 256 ELSE MemAt(a))
    ELSE MemAt(a) + 256 * read_le(a + 1, n - 1)

read(r, offset, n) == read_le(r + offset, n)

\* rel without the sizeof(rel_t) term
rel_missing_size(r, offset) ==
    IF has_result(r) THEN r + read(r, offset, RelSize) + offset ELSE Null

rel(r, offset) ==
    IF has_result(r) THEN r + read(r, offset, RelSize) + offset + RelSize ELSE Null

rel_reads(r, offset) ==
    IF has_result(r) THEN (r + offset)..(r + offset + RelSize - 1) ELSE {}

(***************************************************************************)
(* Alignment helpers                                                       *)
(***************************************************************************)
alignment_stride(a) == a

next_boundary_align(ptr, stride) ==
    IF stride = 1 THEN ptr
    ELSE LET mod == ptr % stride IN ptr + (IF mod # 0 THEN stride - mod ELSE 0)

prev_boundary_align(ptr, stride) ==
    IF stride = 1 THEN ptr
    ELSE LET mod == ptr % stride IN ptr - mod

(***************************************************************************)
(* Kernels.  Each returns the scan result and the set of addresses the     *)
(* kernel may load from while computing it: std::find (unsequenced policy) *)
(* any element of [i, scanEnd), std::equal any compared element.           *)
(***************************************************************************)
RECURSIVE std_find(_, _, _)
std_find(first, last, v) ==
    IF first >= last THEN last
    ELSE IF MemAt(first) = v THEN first
    ELSE std_find(first + 1, last, v)

\* std::equal(signature.begin() + 1, signature.end(), at + 1, pred)
std_equal(sig, at) ==
    \A k \in 2..Len(sig) : ~has_value(sig[k]) \/ value(sig[k]) = MemAt(at + k - 1)

equal_reads(sig, at) == (at + 1)..(at + Len(sig) - 1)

\* Every caller enters with at <= scanEnd (line 269, and the loop conditions of
\* lines 302 and 335), so the loop's i != scanEnd test is reached from below.
RECURSIVE X1_loop(_, _, _)
X1_loop(at, scanEnd, sig) ==
    IF at = scanEnd THEN [result |-> Null, reads |-> {}]
    ELSE LET f == std_find(at, scanEnd, value(sig[1]))
             findReads == at..(scanEnd - 1)
         IN  IF f = scanEnd THEN [result |-> Null, reads |-> findReads]
             ELSE IF std_equal(sig, f)
                  THEN [result |-> f, reads |-> findReads \cup equal_reads(sig, f)]
                  ELSE LET rest == X1_loop(f + 1, scanEnd, sig)
                       IN  [result |-> rest.result,
                            reads |-> findReads \cup equal_reads(sig, f) \cup rest.reads]

\* scanEnd without the signature's length taken off
X1_scanEnd_no_size(end, sig) == end

X1_scanEnd(end, sig) == end - Len(sig) + 1

find_pattern_FastFirst_X1(begin, end, sig) ==
    X1_loop(begin, X1_scanEnd(end, sig), sig)

RECURSIVE X16_loop(_, _, _)
X16_loop(at, scanEnd, sig) ==
    IF at = scanEnd THEN [result |-> Null, reads |-> {}]
    ELSE IF MemAt(at) = value(sig[1])
         THEN IF std_equal(sig, at)
              THEN [result |-> at, reads |-> {at} \cup equal_reads(sig, at)]
              ELSE LET rest == X16_loop(at + 16, scanEnd, sig)
                   IN  [result |-> rest.result,
                        reads |-> {at} \cup equal_reads(sig, at) \cup rest.reads]
         ELSE LET rest == X16_loop(at + 16, scanEnd, sig)
              IN  [result |-> rest.result, reads |-> {at} \cup rest.reads]

find_pattern_FastFirst_X16(begin, end, sig) ==
    LET scanBegin == next_boundary_align(begin, X16)
        scanEnd == prev_boundary_align(end - Len(sig) + 1, X16)
    IN  IF scanBegin >= scanEnd THEN [result |-> Null, reads |-> {}]
        ELSE X16_loop(scanBegin, scanEnd, sig)

(***************************************************************************)
(* truncate, scan_context                                                  *)
(***************************************************************************)
RECURSIVE leading_wildcards(_, _)
leading_wildcards(sig, k) ==
    IF k > Len(sig) THEN k - 1
    ELSE IF has_value(sig[k]) THEN k - 1
    ELSE leading_wildcards(sig, k + 1)

truncate(sig) ==
    LET offset == leading_wildcards(sig, 1)
    IN  [offset |-> offset, trunc |-> SubSeq(sig, offset + 1, Len(sig))]

\* scan_context::create<alignment>(trunc, hints) and scan_context::scan
scan(begin, end, sig, align) ==
    IF align = X1 THEN find_pattern_FastFirst_X1(begin, end, sig)
    ELSE find_pattern_FastFirst_X16(begin, end, sig)

(***************************************************************************)
(* find_pattern, the root implementation of find-first                     *)
(***************************************************************************)
\* find_pattern without the range test of line 269
find_pattern_no_guard(b, e, sig, align) ==
    LET t == truncate(sig)
        begin == b + t.offset
        r == scan(begin, e, t.trunc, align)
    IN  [result |-> IF has_result(r.result) THEN r.result - t.offset ELSE Null,
         reads |-> r.reads, scans |-> 1]

\* find_pattern without the truncation offset taken off the hit (line 276)
find_pattern_no_offset(b, e, sig, align) ==
    LET t == truncate(sig)
        begin == b + t.offset
    IN  IF begin >= e \/ Len(t.trunc) > e - begin
        THEN [result |-> Null, reads |-> {}, scans |-> 0]
        ELSE LET r == scan(begin, e, t.trunc, align)
             IN  [result |-> r.result, reads |-> r.reads, scans |-> 1]

find_pattern(b, e, sig, align) ==
    LET t == truncate(sig)
        begin == b + t.offset
    IN  IF begin >= e \/ Len(t.trunc) > e - begin
        THEN [result |-> Null, reads |-> {}, scans |-> 0]
        ELSE LET r == scan(begin, e, t.trunc, align)
             IN  [result |-> IF has_result(r.result) THEN r.result - t.offset ELSE Null,
                  reads |-> r.reads, scans |-> 1]

(***************************************************************************)
(* Initial states: the inputs of one call.                                 *)
(***************************************************************************)
Idle ==
    /\ pc = "idle"
    /\ op = "none"
    /\ result = Null
    /\ i = Null
    /\ hit = Null
    /\ out = <<>>
    /\ outCap = 0
    /\ matches = 0
    /\ retIn = Null
    /\ reads = {}
    /\ scans = 0
    /\ relOut = Null

Init ==
    /\ mem \in [Hot -> ByteVals]
    /\ beginIn \in BeginSet
    /\ endIn \in EndSet
    /\ signature \in Sigs
    /\ alignment \in {X1, X16}
    /\ Idle

(***************************************************************************)
(* Find-first                                                              *)
(***************************************************************************)
FindPattern ==
    /\ pc = "idle"
    /\ LET r == find_pattern(beginIn, endIn, signature, alignment)
       IN  /\ result' = r.result
           /\ reads' = r.reads
           /\ scans' = r.scans
    /\ pc' = "done"
    /\ op' = "find_pattern"
    /\ UNCHANGED <<mem, beginIn, endIn, signature, alignment, i, hit, out, outCap,
                   matches, retIn, relOut>>

NextFirst == FindPattern

SpecFirst == Init /\ [][NextFirst]_vars

(***************************************************************************)
(* Find-all, bounded output (lines 284-314)                                *)
(***************************************************************************)
begin_of(sig) == beginIn + truncate(sig).offset

\* the loop condition of line 302
BoundedCond ==
    LET t == truncate(signature)
    IN  i < endIn /\ Len(out) # outCap /\ Len(t.trunc) <= endIn - i

FindAllBoundedEnter ==
    /\ pc = "idle"
    /\ \E cap \in 0..MaxOut : outCap' = cap
    /\ pc' = "loop"
    /\ op' = "bounded"
    /\ i' = begin_of(signature)
    /\ out' = <<>>
    /\ UNCHANGED <<mem, beginIn, endIn, signature, alignment, result, hit,
                   matches, retIn, reads, scans, relOut>>

FindAllBoundedIter ==
    /\ pc = "loop"
    /\ op = "bounded"
    /\ BoundedCond
    /\ LET t == truncate(signature)
           r == scan(i, endIn, t.trunc, alignment)
       IN  /\ hit' = r.result
           /\ reads' = reads \cup r.reads
           /\ scans' = scans + 1
           /\ IF ~has_result(r.result)
              THEN /\ i' = endIn
                   /\ out' = out
                   /\ pc' = "done"
                   /\ retIn' = beginIn + (endIn - begin_of(signature))
              ELSE LET addr == r.result - t.offset
                   IN  /\ out' = Append(out, addr)
                       /\ i' = addr + alignment_stride(alignment)
                       /\ pc' = "loop"
                       /\ retIn' = retIn
    /\ UNCHANGED <<mem, beginIn, endIn, signature, alignment, op, result, outCap,
                   matches, relOut>>

FindAllBoundedReturn ==
    /\ pc = "loop"
    /\ op = "bounded"
    /\ ~BoundedCond
    /\ pc' = "done"
    /\ retIn' = beginIn + (i - begin_of(signature))
    /\ UNCHANGED <<mem, beginIn, endIn, signature, alignment, op, result, i, hit,
                   out, outCap, matches, reads, scans, relOut>>

(***************************************************************************)
(* Find-all, counted (lines 317-347) and the vector wrapper (350-359),     *)
(* which runs the counted form on a back_inserter.                         *)
(***************************************************************************)
\* the loop condition of line 335; static_cast<size_t> of a negative distance
\* is a huge value, so the size test passes when i is past end
CountedCond ==
    LET t == truncate(signature)
    IN  begin_of(signature) < endIn /\ (endIn - i < 0 \/ Len(t.trunc) <= endIn - i)

FindAllCountedEnter ==
    /\ pc = "idle"
    /\ pc' = "loop"
    /\ op' \in {"counted", "vector"}
    /\ i' = begin_of(signature)
    /\ out' = <<>>
    /\ matches' = 0
    /\ UNCHANGED <<mem, beginIn, endIn, signature, alignment, result, hit, outCap,
                   retIn, reads, scans, relOut>>

FindAllCountedIter ==
    /\ pc = "loop"
    /\ op \in {"counted", "vector"}
    /\ CountedCond
    /\ scans < MaxScans
    /\ LET t == truncate(signature)
           r == scan(i, endIn, t.trunc, alignment)
       IN  /\ hit' = r.result
           /\ reads' = reads \cup r.reads
           /\ scans' = scans + 1
           /\ IF ~has_result(r.result)
              THEN /\ pc' = "done"
                   /\ UNCHANGED <<i, out, matches>>
              ELSE LET addr == r.result - t.offset
                   IN  /\ out' = Append(out, addr)
                       /\ i' = addr + alignment_stride(alignment)
                       /\ matches' = matches + 1
                       /\ pc' = "loop"
    /\ UNCHANGED <<mem, beginIn, endIn, signature, alignment, op, result, outCap,
                   retIn, relOut>>

FindAllCountedReturn ==
    /\ pc = "loop"
    /\ op \in {"counted", "vector"}
    /\ ~CountedCond
    /\ pc' = "done"
    /\ UNCHANGED <<mem, beginIn, endIn, signature, alignment, op, result, i, hit,
                   out, outCap, matches, retIn, reads, scans, relOut>>

Next ==
    \/ FindPattern
    \/ FindAllBoundedEnter
    \/ FindAllBoundedIter
    \/ FindAllBoundedReturn
    \/ FindAllCountedEnter
    \/ FindAllCountedIter
    \/ FindAllCountedReturn

Spec == Init /\ [][Next]_vars

(***************************************************************************)
(* scan_result_base::rel on a result that holds null or an address         *)
(***************************************************************************)
InitRel ==
    /\ mem \in [UNION {b..(b + MaxRelOffset + RelSize - 1) : b \in RelBases} -> RelByteVals]
    /\ beginIn = Null
    /\ endIn = Null
    /\ signature = <<{0}>>
    /\ alignment = X1
    /\ pc = "idle"
    /\ op = "none"
    /\ result \in {Null} \cup RelBases
    /\ i = 0
    /\ hit = Null
    /\ out = <<>>
    /\ outCap = 0
    /\ matches = 0
    /\ retIn = Null
    /\ reads = {}
    /\ scans = 0
    /\ relOut = Null

\* i holds the offset argument of the call
Rel ==
    /\ pc = "idle"
    /\ \E offset \in 0..MaxRelOffset :
          /\ i' = offset
          /\ relOut' = rel(result, offset)
          /\ reads' = rel_reads(result, offset)
    /\ pc' = "done"
    /\ op' = "rel"
    /\ UNCHANGED <<mem, beginIn, endIn, signature, alignment, result, hit, out,
                   outCap, matches, retIn, scans>>

NextRel == Rel

SpecRel == InitRel /\ [][NextRel]_vars

(***************************************************************************)
(* Reference definitions used by the properties below.                     *)
(***************************************************************************)
\* the match predicate: sig matches the bytes starting at a
Matches(a, sig) ==
    \A k \in 1..Len(sig) : sig[k] = Wild \/ sig[k] = {MemAt(a + k - 1)}

\* the addresses of [b, e) at which sig matches entirely inside [b, e)
MatchSet(b, e, sig) == {a \in b..(e - Len(sig)) : Matches(a, sig)}

Lowest(S) == CHOOSE a \in S : \A c \in S : a <= c

Range(seq) == {seq[k] : k \in DOMAIN seq}

FirstDone == pc = "done" /\ op = "find_pattern"

\* the number of wildcards before the first concrete element
Lead(sig) == Cardinality({k \in DOMAIN sig : \A j \in 1..k : sig[j] = Wild})

Concrete(sig) == [k \in 1..(Len(sig) - Lead(sig)) |-> sig[k + Lead(sig)]]

\* C1: find-first with alignment 1 returns the lowest address of the range at
\* which the whole signature matches inside the range, and null exactly when
\* there is none.
C1_FindFirstIsReference ==
    (FirstDone /\ alignment = X1) =>
        LET M == MatchSet(beginIn, endIn, signature)
        IN  IF M = {} THEN result = Null ELSE result = Lowest(M)

\* a hit past the first candidate, for a signature with a leading and a
\* trailing wildcard
C1_Witness ==
    /\ FirstDone /\ alignment = X1
    /\ Len(signature) = 3 /\ signature[1] = Wild /\ signature[3] = Wild
    /\ result # Null /\ result > beginIn

\* C5: every non-null address of an alignment-16 find-first is a multiple of
\* 16 (a whole number of strides from the first aligned address of the range).
C5_ResultsAligned ==
    (FirstDone /\ alignment = X16 /\ result # Null) =>
        /\ result % 16 = 0
        /\ (result - next_boundary_align(beginIn, X16)) % 16 = 0

\* C6: find-first of n >= 1 wildcards followed by T returns p - n whenever
\* find-first of T returns a non-null p with p - n inside the range.
C6_TruncationLaw ==
    (FirstDone /\ Lead(signature) >= 1) =>
        LET n == Lead(signature)
            p == find_pattern(beginIn, endIn, Concrete(signature), alignment).result
        IN  (p # Null /\ p - n >= beginIn) => result = p - n

C6_Witness ==
    /\ FirstDone /\ alignment = X16 /\ Lead(signature) = 1
    /\ find_pattern(beginIn, endIn, Concrete(signature), alignment).result = beginIn + 1
    /\ result = beginIn

\* C7: find-first loads only from addresses of [beginIn, endIn), and on an
\* invalid range or one shorter than the truncated signature it returns null
\* without invoking a kernel.
C7_NoOutOfBoundsRead ==
    FirstDone =>
        /\ \A a \in reads : beginIn <= a /\ a < endIn
        /\ (beginIn >= endIn \/ endIn - beginIn < Len(Concrete(signature))) =>
               (result = Null /\ scans = 0 /\ reads = {})

C7_Witness ==
    /\ FirstDone /\ beginIn > endIn /\ result = Null /\ scans = 0

\* C9: for a signature whose first element is concrete and a range at least as
\* long, the alignment-16 kernel returns the lowest multiple of 16 in
\* [begin, end - |S| + 1) at which the signature matches, null only if none.
C9_Stride16Candidates ==
    (FirstDone /\ alignment = X16 /\ signature[1] # Wild
        /\ Len(signature) <= endIn - beginIn) =>
        LET M == {a \in MatchSet(beginIn, endIn, signature) : a % 16 = 0}
        IN  IF M = {} THEN result = Null ELSE result = Lowest(M)

FindAll == op \in {"bounded", "counted", "vector"} /\ beginIn <= endIn

FindAllDone == pc = "done" /\ FindAll

\* C2: with alignment 1 and room for every match, the addresses find-all wrote
\* are exactly the addresses of the range at which the signature matches.
C2_FindAllExhaustive ==
    LET M == MatchSet(beginIn, endIn, signature)
    IN  (FindAllDone /\ alignment = X1 /\ (op = "bounded" => Cardinality(M) <= outCap))
            => Range(out) = M

\* C3: find-all stops after finitely many kernel invocations: after each hit
\* the cursor is strictly past the hit, so there are never more invocations
\* than candidate addresses plus the final miss.
C3_FindAllTerminates ==
    FindAll =>
        /\ (pc = "loop" /\ hit # Null) => i > hit
        /\ scans <= Cardinality(beginIn..(endIn - 1)) + 1

\* C4: every address find-first returned or find-all wrote lies in the range
\* with the whole signature inside it, and the signature matches there.
C4_ResultsInRange ==
    /\ (FirstDone /\ result # Null) => result \in MatchSet(beginIn, endIn, signature)
    /\ FindAll =>
           \A k \in DOMAIN out : out[k] \in MatchSet(beginIn, endIn, signature)

\* C10: the bounded find-all returns an input iterator inside [beginIn, endIn]
\* and an output iterator that is beginOut plus the number of results written,
\* never past the capacity.
C10_BoundedReturn ==
    (FindAllDone /\ op = "bounded") =>
        /\ beginIn <= retIn /\ retIn <= endIn
        /\ Len(out) <= outCap

\* The 4 bytes at a, a+1, a+2, a+3 as a two's complement 32-bit integer
SExt32(a) ==
    LET low == MemAt(a) + 256 * MemAt(a + 1) + 65536 * MemAt(a + 2)
        top == MemAt(a + 3)
    IN  IF top >= 128 THEN low + (top - 256) * 16777216 ELSE low + top * 16777216

\* C8: rel(k) on a result holding p is p + sext32(bytes p+k .. p+k+3) + k + 4;
\* on a null result it is null and nothing is read.
C8_RelResolves ==
    (pc = "done" /\ op = "rel") =>
        IF result # Null
        THEN relOut = result + SExt32(result + i) + i + 4
        ELSE relOut = Null /\ reads = {}

\* a negative displacement resolved from a non-zero offset
C8_Witness ==
    /\ pc = "done" /\ op = "rel" /\ result # Null /\ i > 0
    /\ SExt32(result + i) < 0 /\ relOut < result

====
